---- MODULE Spec2Model ----
(***************************************************************************)
(* Task-wise: the synchronisation core of the task manager.                *)
(*                                                                         *)
(*   AuthProvider   user, isGuest                                          *)
(*   TaskProvider   tasks, tags and the calls it has in flight             *)
(*   taskService    the adapter calls against the remote store             *)
(*   useOfflineStorage / RealTimeSync   the offline queue and its drain    *)
(*                                                                         *)
(* Timestamps are abstracted to "set / not set".  In the specifications    *)
(* of the providers and of the queue a task carries no tags, so the        *)
(* adapter's link-row insert is skipped as in the code (tags.length > 0 is *)
(* false) and the link-row delete can only fail or do nothing; SpecAdapter *)
(* runs the adapter store call by store call, with tags and link rows.     *)
(* SpecFn applies the scorers, getAiPrioritizedTasks and the loads from    *)
(* localStorage to arguments with due dates, tag names and Date values.    *)
(***************************************************************************)
EXTENDS Integers, Sequences, FiniteSets, Bags, TLC

VARIABLES
    user,           \* AuthProvider: the signed-in user id, or None
    isGuest,        \* AuthProvider: the guest flag
    tasks,          \* TaskProvider: in-memory task collection (a sequence)
    tags,           \* TaskProvider: in-memory tag collection (a set of tags)
    localTasks,     \* localStorage["kairo_guest_tasks"], Absent or Stored(v)
    localTags,      \* localStorage["kairo_guest_tags"], Absent or Stored(v)
    remoteTasks,    \* remote relation tasks: a set of rows
    remoteTags,     \* remote relation tags: a set of rows
    nextId,         \* the remote store's next generated row id
    nextUuid,       \* the next client-side uuidv4()
    subs,           \* open channels of setupTasksSubscription
    fetches,        \* fetchUserData runs in flight (a bag)
    call,           \* the adapter call a TaskProvider mutation awaits, or NoCall
    queue,          \* useOfflineStorage: queued operations
    offlineData,    \* useOfflineStorage: the offline snapshot
    isOnline,       \* useOfflineStorage: connectivity flag
    syncing,        \* RealTimeSync: the syncing flag
    drainOps,       \* processQueue: the queue value its closure captured
    drainSt,        \* processQueue: per captured entry pending/sent/ok/failed
    drainPhase,     \* processQueue: idle / replay / refetch
    drainBase,      \* history: the store when processQueue started
    enqueued,       \* history: number of addToQueue calls so far
    storeFailed,    \* history: a fetch of this behaviour met a store error
    toggleRun,      \* history: the current run of successive toggles
    links,          \* remote relation task_tags: a bag of link rows
    acalls,         \* taskService calls under way, by caller
    ncalls,         \* history: number of taskService calls made by the callers
    settled,        \* history: how the last TaskProvider mutation ended
    lastLoad,       \* history: the loads of the collections in a row
    isMobile,       \* useIsMobile: the platform flag
    storedQueue,    \* localStorage["tasks_queue"], Absent or Stored(v)
    storedData,     \* localStorage["tasks"], Absent or Stored(v)
    fnIn,           \* the argument a function of the program is applied to
    fnOut           \* what the function gave, or NoResult

vars == <<user, isGuest, tasks, tags, localTasks, localTags, remoteTasks,
          remoteTags, nextId, nextUuid, subs, fetches, call, queue,
          offlineData, isOnline, syncing, drainOps, drainSt, drainPhase,
          drainBase, enqueued, storeFailed, toggleRun, links, acalls,
          ncalls, settled, lastLoad, isMobile, storedQueue, storedData,
          fnIn, fnOut>>

authVars  == <<user, isGuest>>
localVars == <<localTasks, localTags>>
syncVars  == <<subs, fetches, storeFailed>>
storedVars == <<storedQueue, storedData>>
queueVars == <<queue, offlineData, isOnline, syncing, drainOps, drainSt,
               drainPhase, drainBase, enqueued, storedVars>>
adapterVars == <<links, acalls, ncalls>>
histVars == <<settled, lastLoad>>
fnVars == <<isMobile, fnIn, fnOut>>
restVars == <<adapterVars, fnVars>>
extVars == <<restVars, histVars>>

None == "none"
NoCall == [op |-> "none"]
NoBase == [rows |-> {}, nid |-> 0]
Absent == [present |-> FALSE]
Stored(v) == [present |-> TRUE, value |-> v]

(***************************************************************************)
(* Bounds of the model.                                                    *)
(***************************************************************************)
MaxTasks == 1       \* tasks created in one behaviour of SpecTask
MaxEnqueued == 2    \* addToQueue calls in one behaviour of SpecQueue
MaxRemote == 2      \* rows the remote store generates ids for
MaxFetches == 2     \* fetchUserData runs in flight at once
MaxInserts == 1     \* rows other devices insert in one behaviour of SpecSync

Users == {"u1", "u2"}
Titles == {"a", "b"}
Statuses == {"pending", "in-progress", "completed"}
ProgressInputs == {0, 50, 100}     \* slider / progress values offered

ClientId(n) == <<"client", n>>
ServerId(n) == <<"server", n>>

Max(a, b) == IF a >= b THEN a ELSE b

ReplaceById(s, t) == [i \in 1..Len(s) |-> IF s[i].id = t.id THEN t ELSE s[i]]
RemoveById(s, id) == SelectSeq(s, LAMBDA x : x.id # id)
HasId(s, id) == \E i \in 1..Len(s) : s[i].id = id
Find(s, id) == s[CHOOSE i \in 1..Len(s) :
                     s[i].id = id /\ \A j \in 1..(i - 1) : s[j].id # id]

(***************************************************************************)
(* TaskForm: the drafts the form submits.  The slider sets progress and    *)
(* status together; completedAt is not a form field.                       *)
(***************************************************************************)
FormStatus(p) ==
    IF p = 100 THEN "completed" ELSE IF p > 0 THEN "in-progress" ELSE "pending"

FormDraft(title, p) ==
    [title |-> title, status |-> FormStatus(p), progress |-> p]

\* The other attributes of every draft of the model: initialTask's priority,
\* no due date, no tags.
DraftPriority == "medium"
NoDue == -1000      \* dueDate is null
NoScore == -1       \* aiScore is undefined / ai_score is null

(***************************************************************************)
(* The two scorers.  days is daysUntilDue (diffDays), or NoDue; urgentTag  *)
(* says whether a tag of the task matches the scorer's "urgent" test.      *)
(***************************************************************************)
Min(a, b) == IF a <= b THEN a ELSE b

\* switch (task.priority): four cases and no default.
PriorityTermSwapped(priority) ==
    IF priority = "urgent" THEN 20
    ELSE IF priority = "high" THEN 30
    ELSE IF priority = "medium" THEN 10
    ELSE IF priority = "low" THEN 5 ELSE 0

PriorityTerm(priority) ==
    IF priority = "urgent" THEN 30
    ELSE IF priority = "high" THEN 20
    ELSE IF priority = "medium" THEN 10
    ELSE IF priority = "low" THEN 5 ELSE 0

DueDateTermLinear(days) == IF days = NoDue THEN 0 ELSE 40 - 10 * days

DueDateTerm(days) ==
    IF days = NoDue THEN 0
    ELSE IF days <= 1 THEN 40
    ELSE IF days <= 3 THEN 30
    ELSE IF days <= 7 THEN 20 ELSE 10

TagTermOfGuest(urgentTag) == IF urgentTag THEN 25 ELSE 0

TagTerm(urgentTag) == IF urgentTag THEN 15 ELSE 0

ProgressTerm(progress) ==
    IF progress >= 75 THEN 15 ELSE IF progress = 0 THEN 10 ELSE 5

calculateAiScore(priority, days, urgentTag, progress) ==
    Min(100, PriorityTerm(priority) + DueDateTerm(days) + TagTerm(urgentTag)
             + ProgressTerm(progress))

calculateAiScoreForGuestLow(priority, days, urgentTag) ==
    LET prio == IF priority = "high" THEN 30
                ELSE IF priority = "medium" THEN 20
                ELSE IF priority = "low" THEN 5 ELSE 10
        due  == IF days = NoDue THEN 0
                ELSE IF days <= 1 THEN 30
                ELSE IF days <= 3 THEN 20
                ELSE IF days <= 7 THEN 10 ELSE 0
    IN  prio + due + TagTermOfGuest(urgentTag)

calculateAiScoreForGuest(priority, days, urgentTag) ==
    LET prio == IF priority = "high" THEN 30
                ELSE IF priority = "medium" THEN 20 ELSE 10
        due  == IF days = NoDue THEN 0
                ELSE IF days <= 1 THEN 30
                ELSE IF days <= 3 THEN 20
                ELSE IF days <= 7 THEN 10 ELSE 0
        tag  == IF urgentTag THEN 25 ELSE 0
    IN  prio + due + tag

\* The scores of a task of the model.
ScoreOf(t) == calculateAiScore(DraftPriority, NoDue, FALSE, t.progress)
GuestScoreOf(t) == calculateAiScoreForGuest(DraftPriority, NoDue, FALSE)

(***************************************************************************)
(* TaskProvider: status / progress transition rules.                       *)
(***************************************************************************)
NewStatusNoCycle(s) ==
    IF s = "pending" THEN "in-progress"
    ELSE IF s = "in-progress" THEN "completed" ELSE "in-progress"

NewStatus(s) ==
    IF s = "pending" THEN "in-progress"
    ELSE IF s = "in-progress" THEN "completed" ELSE "pending"

ToggledTask(t) ==
    LET ns == NewStatus(t.status) IN
    [t EXCEPT !.status = ns,
              !.completedAt = (ns = "completed"),
              !.progress = IF ns = "completed" THEN 100
                           ELSE IF ns = "in-progress" THEN Max(t.progress, 25)
                           ELSE 0]

ProgressedTask(t, p) ==
    LET st == IF p = 100 THEN "completed"
              ELSE IF p > 0 /\ t.status = "pending" THEN "in-progress"
              ELSE IF p = 0 /\ t.status = "in-progress" THEN "pending"
              ELSE t.status
    IN  [t EXCEPT !.progress = p, !.status = st, !.completedAt = (p = 100)]

(***************************************************************************)
(* taskService: rows written to and read from the remote store.            *)
(* insert() sends no completed_at, so the column takes its null default;   *)
(* update() sends completed_at: task.completedAt, and a property whose     *)
(* value is undefined is dropped from the JSON body, so the column is      *)
(* written only when completedAt is set.  Neither sends ai_score, and the  *)
(* task returned is {...data, ...} with no aiScore property.               *)
(***************************************************************************)
InsertedRow(draft, uid, id) ==
    [id |-> id, user_id |-> uid, title |-> draft.title,
     status |-> draft.status, progress |-> draft.progress,
     completed_at |-> FALSE, ai_score |-> NoScore]

PatchedRow(row, t) ==
    [row EXCEPT !.title = t.title, !.status = t.status,
                !.progress = t.progress,
                !.completed_at = IF t.completedAt THEN TRUE ELSE @]

RowToTask(row) ==
    [id |-> row.id, user_id |-> row.user_id, title |-> row.title,
     status |-> row.status, progress |-> row.progress,
     completedAt |-> row.completed_at, aiScore |-> NoScore]

RowsOf(rows, uid) == {r \in rows : r.user_id = uid}
HasRow(rows, id, uid) == \E r \in rows : r.id = id /\ r.user_id = uid
RowAt(rows, id, uid) == CHOOSE r \in rows : r.id = id /\ r.user_id = uid

\* The store's state after createTask / updateTask / deleteTask went through.
RemoteCreate(rows, draft, uid, id) == rows \cup {InsertedRow(draft, uid, id)}
RemoteUpdate(rows, t, uid) ==
    (rows \ {RowAt(rows, t.id, uid)}) \cup {PatchedRow(RowAt(rows, t.id, uid), t)}
RemoteDelete(rows, id, uid) == {r \in rows : ~(r.id = id /\ r.user_id = uid)}

\* Outcomes of one adapter call.  update(...).single() on no matching row is
\* a store error; after the row update the link delete may still fail, which
\* throws with the row already written.
CreateOutcomes == {"ok", "error"}
UpdateOutcomes(rows, t, uid) ==
    IF HasRow(rows, t.id, uid) THEN {"ok", "error", "linkError"} ELSE {"error"}
DeleteOutcomes == {"ok", "error"}

(***************************************************************************)
(* Tags.  A tag is [id, name]; a remote tag row also has its owner.  The   *)
(* store's generated tag ids are <<"tag", name, copy>>.                    *)
(***************************************************************************)
DefaultNames == {"Work", "Personal", "Urgent", "Shopping", "Health"}
DEFAULT_TAGS == {[id |-> <<"default", n>>, name |-> n] : n \in DefaultNames}

RowToTag(r) == [id |-> r.id, name |-> r.name]
TagRowsOf(rows, uid) == {r \in rows : r.user_id = uid}

\* createTag({name, color}, uid) for each name of S: one new row per name.
SeededRows(rows, uid, S) ==
    {[id |-> <<"tag", n,
               Cardinality({r \in TagRowsOf(rows, uid) : r.name = n}) + 1>>,
      name |-> n, user_id |-> uid] : n \in S}

\* How the five parallel createTag calls can end: all created, none, or
\* some (one representative partial outcome).
SeedOutcomes == {DefaultNames, {}, {"Work", "Personal"}}

\* loadLocalData(): the collections it sets and what it stores.
LoadedTasks == IF localTasks.present THEN localTasks.value ELSE <<>>
LoadedTags ==
    IF localTags.present THEN localTags.value
    ELSE {[id |-> <<"uuid", t.name>>, name |-> t.name] : t \in DEFAULT_TAGS}
StoredTagsAfterLoad ==
    IF localTags.present THEN localTags ELSE Stored(DEFAULT_TAGS)

\* The tag state of a session that has been established: guest mode was
\* entered on a device with no stored tags; user u was signed in and its
\* first fetchUserData created the default tags.
GuestSession ==
    /\ remoteTags = {}
    /\ localTags = Stored(DEFAULT_TAGS)
    /\ tags = {[id |-> <<"uuid", t.name>>, name |-> t.name] : t \in DEFAULT_TAGS}

UserSession(u) ==
    /\ remoteTags = SeededRows({}, u, DefaultNames)
    /\ localTags = Absent
    /\ tags = {RowToTag(r) : r \in SeededRows({}, u, DefaultNames)}

(***************************************************************************)
(* History: the run of successive toggles of one task.                     *)
(***************************************************************************)
NoRun == [id |-> None, from |-> None, n |-> 0, prev |-> None]

RunAfter(via, before) ==
    IF via # "toggle" THEN NoRun
    ELSE IF toggleRun.n \in {1, 2} /\ toggleRun.id = before.id
         THEN [toggleRun EXCEPT !.n = @ + 1, !.prev = before]
         ELSE [id |-> before.id, from |-> before.status, n |-> 1, prev |-> before]

(***************************************************************************)
(* History: how the last mutation of TaskProvider ended.  Every mutation   *)
(* wraps its adapter call in try { ... } catch { toast }, with no rethrow: *)
(* the promise it returns is fulfilled whatever the adapter call did.      *)
(***************************************************************************)
NotSettled == [op |-> "none", remote |-> "none", how |-> "none", id |-> None]

Completion(outcome) == "fulfilled"

SettledLocal(op, id) ==
    [op |-> op, remote |-> "local", how |-> "fulfilled", id |-> id]
SettledRemote(op, outcome, id) ==
    [op |-> op, remote |-> IF outcome = "ok" THEN "ok" ELSE "error",
     how |-> Completion(outcome), id |-> id]

(***************************************************************************)
(* History: the loads of the collections (loadLocalData, or refetchTasks   *)
(* of a signed-in user) made in a row, with nothing else in between.       *)
(***************************************************************************)
NoCollections == [tasks |-> <<>>, tags |-> {}]
NoLoad == [n |-> 0, prev |-> NoCollections, cur |-> NoCollections]

LoadedAgain(ts, tg) ==
    LET now == [tasks |-> ts, tags |-> tg] IN
    [n |-> IF lastLoad.n = 0 THEN 1 ELSE 2,
     prev |-> IF lastLoad.n = 0 THEN now ELSE lastLoad.cur,
     cur |-> now]

(***************************************************************************)
(* TaskProvider mutations (SpecTask issues them one after another).        *)
(***************************************************************************)
AddTask(draft) ==
    /\ call = NoCall
    /\ Len(tasks) < MaxTasks
    /\ IF isGuest
       THEN /\ nextUuid <= MaxTasks
            /\ tasks' = Append(tasks, [id |-> ClientId(nextUuid),
                                       user_id |-> None,
                                       title |-> draft.title,
                                       status |-> draft.status,
                                       progress |-> draft.progress,
                                       completedAt |-> FALSE,
                                       aiScore |-> GuestScoreOf(draft)])
            /\ localTasks' = Stored(tasks')
            /\ nextUuid' = nextUuid + 1
            /\ call' = call
            /\ settled' = SettledLocal("create", ClientId(nextUuid))
       ELSE /\ user # None
            /\ call' = [op |-> "create", draft |-> draft, uid |-> user]
            /\ settled' = NotSettled
            /\ UNCHANGED <<tasks, localTasks, nextUuid>>
    /\ toggleRun' = NoRun
    /\ lastLoad' = NoLoad
    /\ UNCHANGED <<authVars, tags, localTags, remoteTasks, remoteTags, nextId,
                   syncVars, queueVars, restVars>>

CreateTaskReturn(outcome) ==
    /\ call.op = "create"
    /\ outcome \in CreateOutcomes
    /\ outcome = "ok" => nextId <= MaxRemote
    /\ IF outcome = "ok"
       THEN /\ remoteTasks' = RemoteCreate(remoteTasks, call.draft, call.uid,
                                           ServerId(nextId))
            /\ nextId' = nextId + 1
            /\ tasks' = Append(tasks, RowToTask(InsertedRow(call.draft, call.uid,
                                                            ServerId(nextId))))
       ELSE UNCHANGED <<remoteTasks, nextId, tasks>>
    /\ call' = NoCall
    /\ settled' = SettledRemote("create", outcome, ServerId(nextId))
    /\ UNCHANGED <<authVars, tags, localVars, remoteTags, nextUuid, syncVars,
                   queueVars, toggleRun, restVars, lastLoad>>

\* updateTask(updatedTask); via and before feed the history variable only.
UpdateTask(u, via, before) ==
    /\ IF isGuest
       THEN /\ tasks' = ReplaceById(tasks,
                                     [u EXCEPT !.aiScore = GuestScoreOf(u)])
            /\ localTasks' = Stored(tasks')
            /\ call' = call
            /\ toggleRun' = RunAfter(via, before)
            /\ settled' = SettledLocal("update", u.id)
       ELSE /\ user # None
            /\ call' = [op |-> "update", task |-> u, uid |-> user,
                        via |-> via, before |-> before]
            /\ toggleRun' = IF via = "toggle" THEN toggleRun ELSE NoRun
            /\ settled' = NotSettled
            /\ UNCHANGED <<tasks, localTasks>>
    /\ lastLoad' = NoLoad
    /\ UNCHANGED <<authVars, tags, localTags, remoteTasks, remoteTags, nextId,
                   nextUuid, syncVars, queueVars, restVars>>

UpdateTaskReturn(outcome) ==
    /\ call.op = "update"
    /\ outcome \in UpdateOutcomes(remoteTasks, call.task, call.uid)
    /\ remoteTasks' = IF outcome \in {"ok", "linkError"}
                      THEN RemoteUpdate(remoteTasks, call.task, call.uid)
                      ELSE remoteTasks
    /\ tasks' = IF outcome = "ok"
                THEN ReplaceById(tasks,
                         RowToTask(PatchedRow(RowAt(remoteTasks, call.task.id,
                                                    call.uid), call.task)))
                ELSE tasks
    /\ toggleRun' = IF outcome = "ok" THEN RunAfter(call.via, call.before)
                    ELSE NoRun
    /\ call' = NoCall
    /\ settled' = SettledRemote("update", outcome, call.task.id)
    /\ UNCHANGED <<authVars, tags, localVars, remoteTags, nextId, nextUuid,
                   syncVars, queueVars, restVars, lastLoad>>

ToggleTaskStatus(id) ==
    /\ call = NoCall
    /\ HasId(tasks, id)
    /\ UpdateTask(ToggledTask(Find(tasks, id)), "toggle", Find(tasks, id))

UpdateTaskProgress(id, p) ==
    /\ call = NoCall
    /\ HasId(tasks, id)
    /\ UpdateTask(ProgressedTask(Find(tasks, id), p), "progress", Find(tasks, id))

\* TaskForm in edit mode: updateTask({...task, ...formData}).
SubmitEdit(id, title, p) ==
    /\ call = NoCall
    /\ HasId(tasks, id)
    /\ UpdateTask([Find(tasks, id) EXCEPT !.title = title, !.progress = p,
                                          !.status = FormStatus(p)],
                  "edit", Find(tasks, id))

\* The remote relation tasks of a user who has not created a task yet, and
\* of one who created a task (with no tags) earlier.
NoRemoteTasks ==
    /\ remoteTasks = {}
    /\ nextId = 1

OneRemoteTask(u) ==
    /\ remoteTasks = {InsertedRow(FormDraft("a", 0), u, ServerId(1))}
    /\ nextId = 2

\* useOfflineStorage: its save effect has run once, when the hook was
\* mounted.
SavedAtMount ==
    /\ storedQueue = (IF isMobile THEN Stored(<<>>) ELSE Absent)
    /\ storedData = (IF isMobile THEN Stored(<<>>) ELSE Absent)

\* No function of the program has been applied.
NoInput == [fn |-> "none"]
NoResult == [fn |-> "none"]

InitCommon ==
    /\ localTasks = Absent
    /\ nextUuid = 1
    /\ subs = {}
    /\ fetches = EmptyBag
    /\ call = NoCall
    /\ queue = <<>>
    /\ offlineData = <<>>
    /\ isOnline = TRUE
    /\ syncing = FALSE
    /\ drainOps = <<>>
    /\ drainSt = <<>>
    /\ drainPhase = "idle"
    /\ drainBase = NoBase
    /\ enqueued = 0
    /\ storeFailed = FALSE
    /\ toggleRun = NoRun
    /\ links = EmptyBag
    /\ acalls = <<>>
    /\ ncalls = 0
    /\ settled = NotSettled
    /\ lastLoad = NoLoad

\* A session that is already established: guest, or signed in as u1.
InitTask ==
    /\ isGuest \in BOOLEAN
    /\ user = IF isGuest THEN None ELSE "u1"
    /\ IF isGuest THEN GuestSession ELSE UserSession("u1")
    /\ NoRemoteTasks
    /\ InitCommon
    /\ tasks = <<>>
    /\ fnIn = NoInput
    /\ fnOut = NoResult
    /\ isMobile = TRUE
    /\ SavedAtMount

\* The drafts submitted through the form.
Drafts == {FormDraft("a", p) : p \in ProgressInputs}

NextTask ==
    \/ \E draft \in Drafts : AddTask(draft)
    \/ \E o \in CreateOutcomes : CreateTaskReturn(o)
    \/ \E i \in 1..Len(tasks) : ToggleTaskStatus(tasks[i].id)
    \/ \E i \in 1..Len(tasks), p \in ProgressInputs :
           UpdateTaskProgress(tasks[i].id, p)
    \/ \E i \in 1..Len(tasks), p \in ProgressInputs :
           SubmitEdit(tasks[i].id, tasks[i].title, p)
    \/ \E o \in {"ok", "error", "linkError"} : UpdateTaskReturn(o)

SpecTask == InitTask /\ [][NextTask]_vars

(***************************************************************************)
(* Claims about the status / progress transitions, under SpecTask.         *)
(***************************************************************************)

\* C4: for every task the coordinator holds, status = completed exactly when
\* completedAt is set.
C4_CompletedIffCompletedAt ==
    \A i \in 1..Len(tasks) :
        (tasks[i].status = "completed") <=> tasks[i].completedAt

\* C5: for every task the coordinator holds, progress = 100 exactly when
\* status = completed.
C5_FullProgressIffCompleted ==
    \A i \in 1..Len(tasks) :
        (tasks[i].progress = 100) <=> (tasks[i].status = "completed")

\* C6: after three successive successful toggles of one task its status is
\* the status it had before the first of them.
C6_ThreeTogglesReturn ==
    toggleRun.n = 3 => Find(tasks, toggleRun.id).status = toggleRun.from

C6_Witness ==
    /\ toggleRun.n = 3
    /\ toggleRun.from = "in-progress"
    /\ ~isGuest

\* C7: right after a successful toggle the task's derived fields follow its
\* new status: in-progress has progress = max(previous, 25) and no
\* completedAt; completed has progress 100 and completedAt; pending has
\* progress 0 and no completedAt.
C7_ToggleDerivedFields ==
    toggleRun.n > 0 =>
        LET t == Find(tasks, toggleRun.id)
            p == toggleRun.prev
        IN  /\ t.status = "in-progress" =>
                t.progress = Max(p.progress, 25) /\ ~t.completedAt
            /\ t.status = "completed" => t.progress = 100 /\ t.completedAt
            /\ t.status = "pending" => t.progress = 0 /\ ~t.completedAt

(***************************************************************************)
(* useOfflineStorage and RealTimeSync: the offline queue and its drain,    *)
(* with u1 signed in, on a mobile device or not.                           *)
(***************************************************************************)
QTask(id, title) ==
    [id |-> id, user_id |-> None, title |-> title, status |-> "pending",
     progress |-> 0, completedAt |-> FALSE]

ClientIds == {ClientId(1), ClientId(2)}
PayloadIds == ClientIds \cup {ServerId(n) : n \in 1..MaxRemote}

\* fetchTasks(uid): the user's rows as tasks, in the store's (id) order.
FetchedTasks(rows, uid) ==
    LET rs == RowsOf(rows, uid)
        rank(r) == Cardinality({x \in rs : x.id[2] < r.id[2]}) + 1
    IN  [i \in 1..Cardinality(rs) |-> RowToTask(CHOOSE r \in rs : rank(r) = i)]

\* The offline snapshot after an enqueue.
SnapshotAfterCreateOnly(data, op) ==
    IF op.type = "create" THEN Append(data, op.data) ELSE data

SnapshotAfter(data, op) ==
    IF op.type = "create" THEN Append(data, op.data)
    ELSE IF op.type = "update" THEN ReplaceById(data, op.data)
    ELSE RemoveById(data, op.data.id)

\* The replay loop: which captured entries have their adapter call issued.
\* for (const op of queue) { await ... }: the next entry is sent only when
\* no call is outstanding.
Sent(st) == {i \in 1..Len(st) : st[i] = "sent"}
Pending(st) == {i \in 1..Len(st) : st[i] = "pending"}
FirstPending(st) == CHOOSE i \in Pending(st) : \A j \in Pending(st) : i <= j

IssueAll(st) ==
    SubSeq([i \in 1..Len(st) |-> IF st[i] = "pending" THEN "sent" ELSE st[i]],
           1, Len(st))

Issue(st) ==
    IF Sent(st) = {} /\ Pending(st) # {}
    THEN [st EXCEPT ![FirstPending(st)] = "sent"]
    ELSE st

\* What a replayed entry can come back with, and the store after it.
ReplayOutcomes(rows, op, uid, nid) ==
    IF op.type = "create"
        THEN IF nid <= MaxRemote THEN CreateOutcomes ELSE {"error"}
    ELSE IF op.type = "update"
        THEN IF HasRow(rows, op.data.id, uid) THEN {"ok", "error", "linkError"}
             ELSE {"norow"}
    ELSE DeleteOutcomes

ReplayRows(rows, op, uid, nid, outcome) ==
    IF op.type = "create" /\ outcome = "ok"
        THEN RemoteCreate(rows, op.data, uid, ServerId(nid))
    ELSE IF op.type = "update" /\ outcome \in {"ok", "linkError"}
        THEN RemoteUpdate(rows, op.data, uid)
    ELSE IF op.type = "delete" /\ outcome = "ok"
        THEN RemoteDelete(rows, op.data.id, uid)
    ELSE rows

\* The effect of RealTimeSync on [isOnline, queue, user?.id, syncing]: it
\* starts processQueue, capturing the queue it was rendered with.
DrainStartsUnguarded(q, online, busy) == online /\ Len(q) > 0 /\ user # None

DrainStarts(q, online, busy) == online /\ Len(q) > 0 /\ user # None /\ ~busy

DrainEffect(q, online) ==
    IF DrainStarts(q, online, syncing)
    THEN /\ syncing' = TRUE
         /\ drainOps' = q
         /\ drainSt' = Issue([i \in 1..Len(q) |-> "pending"])
         /\ drainPhase' = "replay"
         /\ drainBase' = [rows |-> remoteTasks, nid |-> nextId]
    ELSE UNCHANGED <<syncing, drainOps, drainSt, drainPhase, drainBase>>

\* The save effect on [queue, offlineData, key, isMobile]: both are written
\* to localStorage, on a mobile device.
SaveEffect(q, data) ==
    IF isMobile
    THEN storedQueue' = Stored(q) /\ storedData' = Stored(data)
    ELSE UNCHANGED storedVars

\* addToQueue(operation): if (!isMobile) return; otherwise the entry goes
\* to the tail of the queue and the snapshot follows its kind.
AddToQueue(op) ==
    /\ enqueued < MaxEnqueued
    /\ enqueued' = enqueued + 1
    /\ queue' = IF isMobile THEN Append(queue, op) ELSE queue
    /\ offlineData' = IF isMobile THEN SnapshotAfter(offlineData, op)
                      ELSE offlineData
    /\ SaveEffect(queue', offlineData')
    /\ DrainEffect(queue', isOnline)
    /\ UNCHANGED <<authVars, tasks, tags, localVars, remoteTasks, remoteTags,
                   nextId, nextUuid, syncVars, call, isOnline, toggleRun,
                   extVars>>

HandleOnline ==
    /\ ~isOnline
    /\ isOnline' = TRUE
    /\ DrainEffect(queue, TRUE)
    /\ UNCHANGED <<authVars, tasks, tags, localVars, remoteTasks, remoteTags,
                   nextId, nextUuid, syncVars, call, queue, offlineData, storedVars,
                   enqueued, toggleRun, extVars>>

HandleOffline ==
    /\ isOnline
    /\ isOnline' = FALSE
    /\ UNCHANGED <<authVars, tasks, tags, localVars, remoteTasks, remoteTags,
                   nextId, nextUuid, syncVars, call, queue, offlineData, storedVars,
                   syncing,
                   drainOps, drainSt, drainPhase, drainBase, enqueued, toggleRun,
                   extVars>>

\* The awaited adapter call of captured entry i comes back; the loop goes on
\* to the next entry, or past the loop to await refetchTasks().
ReplayReturn(i, outcome) ==
    /\ drainPhase = "replay"
    /\ i \in Sent(drainSt)
    /\ outcome \in ReplayOutcomes(remoteTasks, drainOps[i], user, nextId)
    /\ remoteTasks' = ReplayRows(remoteTasks, drainOps[i], user, nextId, outcome)
    /\ nextId' = IF drainOps[i].type = "create" /\ outcome = "ok"
                 THEN nextId + 1 ELSE nextId
    /\ LET st == Issue([drainSt EXCEPT ![i] = outcome]) IN
        /\ drainSt' = st
        /\ drainPhase' = IF Sent(st) = {} /\ Pending(st) = {}
                         THEN "refetch" ELSE "replay"
    /\ UNCHANGED <<authVars, tasks, tags, localVars, remoteTags, nextUuid,
                   syncVars, call, queue, offlineData, storedVars, isOnline, syncing,
                   drainOps, drainBase, enqueued, toggleRun, extVars>>

\* refetchTasks() comes back (it catches its own error), then clearQueue()
\* and, in finally, setSyncing(false).
RefetchReturn(outcome) ==
    /\ drainPhase = "refetch"
    /\ tasks' = IF outcome = "ok" THEN FetchedTasks(remoteTasks, user) ELSE tasks
    /\ queue' = <<>>
    /\ SaveEffect(<<>>, offlineData)
    /\ syncing' = FALSE
    /\ drainPhase' = "idle"
    /\ drainOps' = <<>>
    /\ drainSt' = <<>>
    /\ drainBase' = NoBase
    /\ lastLoad' = NoLoad
    /\ UNCHANGED <<authVars, tags, localVars, remoteTasks, remoteTags, nextId,
                   nextUuid, syncVars, call, offlineData, isOnline, enqueued,
                   toggleRun, restVars,
                   settled>>

InitQueue ==
    /\ user = "u1"
    /\ isGuest = FALSE
    /\ UserSession("u1")
    /\ NoRemoteTasks
    /\ InitCommon
    /\ tasks = <<>>
    /\ fnIn = NoInput
    /\ fnOut = NoResult
    /\ isMobile \in BOOLEAN
    /\ SavedAtMount

\* The operations a caller enqueues.
CreateOps ==
    {[type |-> "create", data |-> QTask(id, title)] :
         id \in ClientIds, title \in Titles}
UpdateOps ==
    {[type |-> "update", data |-> QTask(id, title)] :
         id \in PayloadIds, title \in Titles}
DeleteOps == {[type |-> "delete", data |-> QTask(id, "a")] : id \in PayloadIds}

NextQueue ==
    \/ \E op \in CreateOps : AddToQueue(op)
    \/ \E op \in UpdateOps : AddToQueue(op)
    \/ \E op \in DeleteOps : AddToQueue(op)
    \/ HandleOnline
    \/ HandleOffline
    \/ \E i \in 1..Len(drainSt),
          o \in {"ok", "error", "linkError", "norow"} : ReplayReturn(i, o)
    \/ \E o \in {"ok", "error"} : RefetchReturn(o)

SpecQueue == InitQueue /\ [][NextQueue]_vars

(***************************************************************************)
(* Claims about the drain, under SpecQueue.                                *)
(***************************************************************************)
AllReplayed(outcomes) == \A i \in 1..Len(drainSt) : drainSt[i] \in outcomes

\* C1: a drain of <<create T1, update T1's title>> that the store did not
\* fail leaves exactly one new remote task, and it carries the updated title.
C1_CreateThenUpdateDrained ==
    ( /\ drainPhase = "refetch"
      /\ Len(drainOps) = 2
      /\ drainOps[1].type = "create"
      /\ drainOps[2].type = "update"
      /\ drainOps[2].data.id = drainOps[1].data.id
      /\ drainSt[1] = "ok"
      /\ drainSt[2] \notin {"error", "linkError"} )
    => \E r \in remoteTasks :
          /\ remoteTasks \ drainBase.rows = {r}
          /\ r.title = drainOps[2].data.title

\* C2: when a drain finishes, every captured entry whose replay failed is
\* still in the queue.
C2_FailedStaysQueued ==
    [][ (drainPhase = "refetch" /\ drainPhase' = "idle") =>
            \A i \in 1..Len(drainOps) :
                drainSt[i] # "ok" =>
                    \E k \in 1..Len(queue') : queue'[k] = drainOps[i] ]_vars

\* C3: the drain has at most one replay call outstanding, entries are sent
\* in queue order, each only after all earlier ones came back, and when the
\* loop is through the store is what applying the entries one after another
\* in enqueue order, each with the answer it got, gives.
RECURSIVE SyncApply(_, _, _, _, _)
SyncApply(rows, nid, ops, outs, uid) ==
    IF ops = <<>> THEN rows
    ELSE IF Head(outs) \notin ReplayOutcomes(rows, Head(ops), uid, nid)
        THEN SyncApply(rows, nid, Tail(ops), Tail(outs), uid)
    ELSE SyncApply(ReplayRows(rows, Head(ops), uid, nid, Head(outs)),
                   IF Head(ops).type = "create" /\ Head(outs) = "ok"
                   THEN nid + 1 ELSE nid,
                   Tail(ops), Tail(outs), uid)

C3_FifoReplay ==
    /\ Cardinality(Sent(drainSt)) <= 1
    /\ \A i \in 1..Len(drainSt) :
           drainSt[i] # "pending" =>
               \A j \in 1..(i - 1) : drainSt[j] \notin {"pending", "sent"}
    /\ drainPhase = "refetch" =>
           remoteTasks = SyncApply(drainBase.rows, drainBase.nid, drainOps,
                                   drainSt, user)

C3_Witness ==
    /\ drainPhase = "refetch"
    /\ Len(drainOps) = 2
    /\ AllReplayed({"ok"})
    /\ drainOps[1].data.id # drainOps[2].data.id
    /\ drainOps[1].type = "create"
    /\ drainOps[2].type = "create"
    /\ drainOps[1].data.title # drainOps[2].data.title

\* C28: a call of addToQueue puts one entry at the tail of the queue, and
\* the snapshot follows the entry's kind: create appends the task, update
\* replaces the items of the same id in place, delete removes them.
C28_Enqueue ==
    [][ enqueued' = enqueued + 1 =>
          /\ Len(queue') = Len(queue) + 1
          /\ SubSeq(queue', 1, Len(queue)) = queue
          /\ LET op == queue'[Len(queue')] IN
                 offlineData' =
                   IF op.type = "create" THEN offlineData \o <<op.data>>
                   ELSE IF op.type = "update"
                     THEN [i \in 1..Len(offlineData) |->
                             IF offlineData[i].id = op.data.id THEN op.data
                             ELSE offlineData[i]]
                   ELSE RemoveById(offlineData, op.data.id) ]_vars

\* C31: an entry leaves the queue only after its replay call was sent to
\* the store and came back, also an entry enqueued while a drain was under
\* way.
C31_ReplayedBeforeRemoved ==
    [][ \A k \in 1..Len(queue) :
            Len(queue') < k =>
                /\ k <= Len(drainOps)
                /\ drainOps[k] = queue[k]
                /\ drainSt[k] \notin {"pending", "sent"} ]_vars

RECURSIVE Applied(_)
Applied(ops) ==
    IF ops = <<>> THEN <<>>
    ELSE LET data == Applied(SubSeq(ops, 1, Len(ops) - 1))
             op == ops[Len(ops)]
         IN  IF op.type = "create" THEN data \o <<op.data>>
             ELSE IF op.type = "update"
                 THEN [i \in 1..Len(data) |->
                         IF data[i].id = op.data.id THEN op.data ELSE data[i]]
             ELSE SelectSeq(data, LAMBDA x : x.id # op.data.id)

NotCleared == IF isMobile THEN Len(queue) = enqueued ELSE queue = <<>>

NewFetch(uid) == [uid |-> uid, phase |-> "tasks", data |-> <<>>]

InFlight == BagToSet(fetches)
Started(f) == fetches (+) SetToBag({f})
Ended(f) == fetches (-) SetToBag({f})
Moved(f, g) == (fetches (-) SetToBag({f})) (+) SetToBag({g})

\* The subscription effect on [user?.id, isGuest]: the cleanup of the
\* previous run, then a new channel when a user is present and guest is off.
SubsAfterNoCleanup(u, g) ==
    IF u = None \/ g THEN subs ELSE subs \cup {[uid |-> u]}

SubsAfter(u, g) ==
    IF u = None \/ g THEN {} ELSE {[uid |-> u]}

\* Both TaskProvider effects, run after AuthProvider's state became (u, g).
SessionEffects(u, g) ==
    /\ subs' = SubsAfter(u, g)
    /\ IF g
       THEN /\ tasks' = LoadedTasks
            /\ tags' = LoadedTags
            /\ localTags' = StoredTagsAfterLoad
            /\ fetches' = fetches
            /\ lastLoad' = LoadedAgain(tasks', tags')
       ELSE IF u # None
       THEN /\ BagCardinality(fetches) < MaxFetches
            /\ fetches' = Started(NewFetch(u))
            /\ lastLoad' = NoLoad
            /\ UNCHANGED <<tasks, tags, localTags>>
       ELSE /\ tasks' = <<>>
            /\ tags' = {}
            /\ lastLoad' = NoLoad
            /\ UNCHANGED <<fetches, localTags>>

\* onAuthStateChange: SIGNED_IN with a session of user u.
SignedIn(u) ==
    /\ user # u \/ isGuest
    /\ user' = u
    /\ isGuest' = FALSE
    /\ SessionEffects(u, FALSE)
    /\ UNCHANGED <<localTasks, remoteTasks, remoteTags, nextId, nextUuid,
                   storeFailed, call, queueVars, toggleRun, restVars,
                   settled>>

\* onAuthStateChange: SIGNED_OUT.
SignedOut ==
    /\ user # None
    /\ user' = None
    /\ isGuest' = isGuest
    /\ SessionEffects(None, isGuest)
    /\ UNCHANGED <<localTasks, remoteTasks, remoteTags, nextId, nextUuid,
                   storeFailed, call, queueVars, toggleRun, restVars,
                   settled>>

SetGuestMode(enabled) ==
    /\ isGuest # enabled
    /\ isGuest' = enabled
    /\ user' = user
    /\ SessionEffects(user, enabled)
    /\ UNCHANGED <<localTasks, remoteTasks, remoteTags, nextId, nextUuid,
                   storeFailed, call, queueVars, toggleRun, restVars,
                   settled>>

\* Another device changes the user's tasks; the store notifies every open
\* channel filtered on that user, whose callback is fetchUserData.
Notified(uid) ==
    IF [uid |-> uid] \in subs THEN Started(NewFetch(uid)) ELSE fetches

OtherDeviceInsert(uid, title) ==
    /\ nextId <= MaxInserts
    /\ [uid |-> uid] \in subs => BagCardinality(fetches) < MaxFetches
    /\ remoteTasks' = RemoteCreate(remoteTasks, FormDraft(title, 0), uid,
                                   ServerId(nextId))
    /\ nextId' = nextId + 1
    /\ fetches' = Notified(uid)
    /\ UNCHANGED <<authVars, tasks, tags, localVars, remoteTags, nextUuid, subs,
                   storeFailed, call, queueVars, toggleRun, extVars>>

OtherDeviceDelete(row) ==
    /\ row \in remoteTasks
    /\ [uid |-> row.user_id] \in subs => BagCardinality(fetches) < MaxFetches
    /\ remoteTasks' = RemoteDelete(remoteTasks, row.id, row.user_id)
    /\ fetches' = Notified(row.user_id)
    /\ UNCHANGED <<authVars, tasks, tags, localVars, remoteTags, nextId,
                   nextUuid, subs, storeFailed, call, queueVars, toggleRun,
                   extVars>>

\* fetchUserData: the store answers fetchTasks(uid) ...
FetchTasksRead(f, outcome) ==
    /\ f \in InFlight
    /\ f.phase = "tasks"
    /\ IF outcome = "ok"
       THEN /\ fetches' = Moved(f, [f EXCEPT !.phase = "tasksRead",
                                             !.data = FetchedTasks(remoteTasks,
                                                                   f.uid)])
            /\ storeFailed' = storeFailed
       ELSE /\ fetches' = Ended(f)
            /\ storeFailed' = TRUE
    /\ UNCHANGED <<authVars, tasks, tags, localVars, remoteTasks, remoteTags,
                   nextId, nextUuid, subs, call, queueVars, toggleRun, extVars>>

\* ... the answer arrives: setTasks(userTasks), then fetchTags is awaited.
FetchTasksReturn(f) ==
    /\ f \in InFlight
    /\ f.phase = "tasksRead"
    /\ tasks' = f.data
    /\ fetches' = Moved(f, [f EXCEPT !.phase = "tags", !.data = <<>>])
    /\ lastLoad' = NoLoad
    /\ UNCHANGED <<authVars, tags, localVars, remoteTasks, remoteTags, nextId,
                   nextUuid, subs, storeFailed, call, queueVars, toggleRun, restVars,
                   settled>>

\* fetchTags(uid) comes back: the first time with no tags the defaults are
\* created; otherwise setTags.
FetchTagsReturn(f, outcome) ==
    /\ f \in InFlight
    /\ f.phase \in {"tags", "tags2"}
    /\ IF outcome # "ok"
       THEN /\ fetches' = Ended(f)
            /\ storeFailed' = TRUE
            /\ tags' = tags
       ELSE IF f.phase = "tags" /\ TagRowsOf(remoteTags, f.uid) = {}
       THEN /\ fetches' = Moved(f, [f EXCEPT !.phase = "seed"])
            /\ UNCHANGED <<storeFailed, tags>>
       ELSE /\ tags' = {RowToTag(r) : r \in TagRowsOf(remoteTags, f.uid)}
            /\ fetches' = Ended(f)
            /\ storeFailed' = storeFailed
    /\ lastLoad' = NoLoad
    /\ UNCHANGED <<authVars, tasks, localVars, remoteTasks, remoteTags, nextId,
                   nextUuid, subs, call, queueVars, toggleRun, restVars,
                   settled>>

\* Promise.all of the five createTag calls settles: S are the names whose
\* row was created; with all created fetchTags is awaited again, otherwise
\* the rejection is caught.
SeedReturn(f, S) ==
    /\ f \in InFlight
    /\ f.phase = "seed"
    /\ remoteTags' = remoteTags \cup SeededRows(remoteTags, f.uid, S)
    /\ IF S = DefaultNames
       THEN /\ fetches' = Moved(f, [f EXCEPT !.phase = "tags2"])
            /\ storeFailed' = storeFailed
       ELSE /\ fetches' = Ended(f)
            /\ storeFailed' = TRUE
    /\ UNCHANGED <<authVars, tasks, tags, localVars, remoteTasks, nextId,
                   nextUuid, subs, call, queueVars, toggleRun, extVars>>

\* The app has started with no session; u2 has used it before, u1 has not.
\* Only u1 has other devices that add tasks.
InitSync ==
    /\ user = None
    /\ isGuest = FALSE
    /\ remoteTags = SeededRows({}, "u2", DefaultNames)
    /\ tags = {}
    /\ localTags = Absent
    /\ NoRemoteTasks
    /\ InitCommon
    /\ tasks = <<>>
    /\ fnIn = NoInput
    /\ fnOut = NoResult
    /\ isMobile = TRUE
    /\ SavedAtMount

NextSync ==
    \/ \E u \in Users : SignedIn(u)
    \/ SignedOut
    \/ \E b \in BOOLEAN : SetGuestMode(b)
    \/ \E title \in {"a"} : OtherDeviceInsert("u1", title)
    \/ \E row \in remoteTasks : OtherDeviceDelete(row)
    \/ \E f \in InFlight, o \in {"ok", "error"} : FetchTasksRead(f, o)
    \/ \E f \in InFlight : FetchTasksReturn(f)
    \/ \E f \in InFlight, o \in {"ok", "error"} : FetchTagsReturn(f, o)
    \/ \E f \in InFlight, S \in SeedOutcomes : SeedReturn(f, S)

SpecSync == InitSync /\ [][NextSync]_vars

(***************************************************************************)
(* Claims about the session, the subscription and the fetches, under       *)
(* SpecSync.                                                               *)
(***************************************************************************)

\* C8: while nobody is signed in and guest mode is off, the in-memory task
\* and tag collections are empty.
C8_EmptyWhileSignedOut ==
    (user = None /\ ~isGuest) => (tasks = <<>> /\ tags = {})

C10_SettledEqualsRemote ==
    (user # None /\ ~isGuest /\ fetches = EmptyBag /\ ~storeFailed) =>
        tasks = FetchedTasks(remoteTasks, user)

\* C19: u1, who had no tags, is signed in; with no fetch in flight and no
\* store error met, u1's remote tags are one copy of the five default tags
\* and the in-memory tag collection is those tags.
C19_SeededOnce ==
    (user = "u1" /\ ~isGuest /\ fetches = EmptyBag /\ ~storeFailed) =>
        /\ TagRowsOf(remoteTags, "u1") = SeededRows({}, "u1", DefaultNames)
        /\ tags = {RowToTag(r) : r \in TagRowsOf(remoteTags, "u1")}

\* The channel of RealTimeSync's effect on [user?.id]: open while a user is
\* present.
SyncChannels(u) == IF u = None THEN {} ELSE {[uid |-> u]}

\* C29: while guest mode is on, no realtime channel is open, no drain runs
\* and no store call is sent.
C29_GuestIsLocal ==
    /\ [](isGuest => /\ subs = {}
                     /\ SyncChannels(user) = {}
                     /\ drainPhase = "idle")
    /\ [][ isGuest /\ isGuest' =>
             /\ call' = NoCall
             /\ \A f \in InFlight' :
                    f.phase # "tasksRead" => f \in InFlight ]_vars

\* C36: the guest flag is off whenever a user is present.
\* C34: while a user is signed in with guest mode off, every task of the
\* in-memory collection is a task of that user that came from the store,
\* and no row of the store belongs to nobody.
C34_OnlyOwnTasks ==
    /\ (user # None /\ ~isGuest) =>
           \A i \in 1..Len(tasks) : tasks[i].user_id = user
    /\ \A r \in remoteTasks : r.user_id # None

C36_GuestOrUser == user # None => ~isGuest

(***************************************************************************)
(* addTask of a signed-in user against the subscription.  createTask       *)
(* awaits the store: the row is inserted there, the store notifies the     *)
(* user's channel, and only later does the answer reach addTask, which     *)
(* appends the returned task.  SpecAppend takes the two moments apart, so  *)
(* that the fetches the notification starts run in between.                *)
(***************************************************************************)
\* The store executes the insert of createTask (or refuses it).
CreateTaskInsert(outcome) ==
    /\ call.op = "create"
    /\ outcome \in CreateOutcomes
    /\ IF outcome = "ok"
       THEN /\ nextId <= MaxRemote
            /\ [uid |-> call.uid] \in subs =>
                   BagCardinality(fetches) < MaxFetches
            /\ remoteTasks' = RemoteCreate(remoteTasks, call.draft, call.uid,
                                           ServerId(nextId))
            /\ nextId' = nextId + 1
            /\ fetches' = Notified(call.uid)
            /\ call' = [op |-> "created", uid |-> call.uid,
                        row |-> InsertedRow(call.draft, call.uid,
                                            ServerId(nextId))]
            /\ settled' = settled
       ELSE /\ call' = NoCall
            /\ settled' = SettledRemote("create", outcome, ServerId(nextId))
            /\ UNCHANGED <<remoteTasks, nextId, fetches>>
    /\ UNCHANGED <<authVars, tasks, tags, localVars, remoteTags, nextUuid,
                   subs, storeFailed, queueVars, toggleRun, restVars,
                   lastLoad>>

\* The answer of the insert reaches addTask:
\* setTasks((prevTasks) => [...prevTasks, newTask]).
TasksAfterAppend(ts, newTask) == Append(ts, newTask)

CreateTaskResolve ==
    /\ call.op = "created"
    /\ tasks' = TasksAfterAppend(tasks, RowToTask(call.row))
    /\ call' = NoCall
    /\ settled' = SettledRemote("create", "ok", call.row.id)
    /\ UNCHANGED <<authVars, tags, localVars, remoteTasks, remoteTags, nextId,
                   nextUuid, syncVars, queueVars, toggleRun, restVars,
                   lastLoad>>

\* The app has started with no session; u1 has used it before.
InitAppend ==
    /\ user = None
    /\ isGuest = FALSE
    /\ remoteTags = SeededRows({}, "u1", DefaultNames)
    /\ tags = {}
    /\ localTags = Absent
    /\ NoRemoteTasks
    /\ InitCommon
    /\ tasks = <<>>
    /\ fnIn = NoInput
    /\ fnOut = NoResult
    /\ isMobile = TRUE
    /\ SavedAtMount

NextAppend ==
    \/ SignedIn("u1")
    \/ \E draft \in Drafts : AddTask(draft)
    \/ \E o \in CreateOutcomes : CreateTaskInsert(o)
    \/ CreateTaskResolve
    \/ \E f \in InFlight, o \in {"ok", "error"} : FetchTasksRead(f, o)
    \/ \E f \in InFlight : FetchTasksReturn(f)
    \/ \E f \in InFlight, o \in {"ok", "error"} : FetchTagsReturn(f, o)

SpecAppend == InitAppend /\ [][NextAppend]_vars

\* C33: no two entries of the in-memory task collection have the same id.
C33_UniqueIds ==
    \A i, j \in 1..Len(tasks) : tasks[i].id = tasks[j].id => i = j

(***************************************************************************)
(* TaskProvider: the remaining mutations and refetchTasks.  SpecMutate     *)
(* starts on a fresh device with nobody signed in, or with u1 signed in,   *)
(* and issues the operations one after another.                            *)
(***************************************************************************)
MaxTags == 1        \* tags added with addTag in one behaviour
NewTagNames == {"Home"}

AddedTags(tg) == {t \in tg : t.name \in NewTagNames}
GuestTagId(tg, name) ==
    <<"uuid", name, Cardinality({t \in tg : t.name = name}) + 1>>

DeleteTask(id) ==
    /\ call = NoCall
    /\ HasId(tasks, id)
    /\ IF isGuest
       THEN /\ tasks' = RemoveById(tasks, id)
            /\ localTasks' = Stored(tasks')
            /\ call' = call
            /\ settled' = SettledLocal("delete", id)
       ELSE /\ user # None
            /\ call' = [op |-> "delete", id |-> id, uid |-> user]
            /\ settled' = NotSettled
            /\ UNCHANGED <<tasks, localTasks>>
    /\ toggleRun' = NoRun
    /\ lastLoad' = NoLoad
    /\ UNCHANGED <<authVars, tags, localTags, remoteTasks, remoteTags, nextId,
                   nextUuid, syncVars, queueVars, restVars>>

DeleteTaskReturn(outcome) ==
    /\ call.op = "delete"
    /\ outcome \in DeleteOutcomes
    /\ remoteTasks' = IF outcome = "ok"
                      THEN RemoteDelete(remoteTasks, call.id, call.uid)
                      ELSE remoteTasks
    /\ tasks' = IF outcome = "ok" THEN RemoveById(tasks, call.id) ELSE tasks
    /\ settled' = SettledRemote("delete", outcome, call.id)
    /\ call' = NoCall
    /\ UNCHANGED <<authVars, tags, localVars, remoteTags, nextId, nextUuid,
                   syncVars, queueVars, toggleRun, restVars, lastLoad>>

\* setTags((prevTags) => [...prevTags, newTag]) is reached only when
\* createTag did not throw.
TagsAfterCreateTagAlways(outcome, tg, newTag) == tg \cup {newTag}

TagsAfterCreateTag(outcome, tg, newTag) ==
    IF outcome = "ok" THEN tg \cup {newTag} ELSE tg

AddTag(name) ==
    /\ call = NoCall
    /\ Cardinality(AddedTags(tags)) < MaxTags
    /\ IF isGuest
       THEN /\ tags' = tags \cup {[id |-> GuestTagId(tags, name), name |-> name]}
            /\ localTags' = Stored(tags')
            /\ call' = call
            /\ settled' = SettledLocal("createTag", GuestTagId(tags, name))
       ELSE /\ user # None
            /\ call' = [op |-> "createTag", name |-> name, uid |-> user]
            /\ settled' = NotSettled
            /\ UNCHANGED <<tags, localTags>>
    /\ toggleRun' = NoRun
    /\ lastLoad' = NoLoad
    /\ UNCHANGED <<authVars, tasks, localTasks, remoteTasks, remoteTags, nextId,
                   nextUuid, syncVars, queueVars, restVars>>

CreateTagReturn(outcome) ==
    /\ call.op = "createTag"
    /\ outcome \in {"ok", "error"}
    /\ LET row == CHOOSE r \in SeededRows(remoteTags, call.uid, {call.name}) :
                      TRUE
       IN  /\ remoteTags' = IF outcome = "ok" THEN remoteTags \cup {row}
                            ELSE remoteTags
           /\ tags' = TagsAfterCreateTag(outcome, tags, RowToTag(row))
           /\ settled' = SettledRemote("createTag", outcome, row.id)
    /\ call' = NoCall
    /\ UNCHANGED <<authVars, tasks, localVars, remoteTasks, nextId, nextUuid,
                   syncVars, queueVars, toggleRun, restVars, lastLoad>>

\* refetchTasks(): loadLocalData() in guest mode; otherwise fetchTasks is
\* awaited and its answer replaces the task collection.
RefetchTasks ==
    /\ call = NoCall
    /\ IF isGuest
       THEN /\ tasks' = LoadedTasks
            /\ tags' = LoadedTags
            /\ localTags' = StoredTagsAfterLoad
            /\ lastLoad' = LoadedAgain(tasks', tags')
            /\ call' = call
       ELSE /\ user # None
            /\ call' = [op |-> "refetch", uid |-> user]
            /\ UNCHANGED <<tasks, tags, localTags, lastLoad>>
    /\ toggleRun' = NoRun
    /\ UNCHANGED <<authVars, localTasks, remoteTasks, remoteTags, nextId,
                   nextUuid, syncVars, queueVars, restVars, settled>>

RefetchTasksReturn(outcome) ==
    /\ call.op = "refetch"
    /\ outcome \in {"ok", "error"}
    /\ tasks' = IF outcome = "ok" THEN FetchedTasks(remoteTasks, call.uid)
                ELSE tasks
    /\ lastLoad' = LoadedAgain(tasks', tags)
    /\ call' = NoCall
    /\ UNCHANGED <<authVars, tags, localVars, remoteTasks, remoteTags, nextId,
                   nextUuid, syncVars, queueVars, toggleRun, restVars,
                   settled>>

InitMutate ==
    /\ user \in {None, "u1"}
    /\ isGuest = FALSE
    /\ IF user = None
       THEN tags = {} /\ localTags = Absent /\ remoteTags = {}
       ELSE UserSession("u1")
    /\ NoRemoteTasks
    /\ InitCommon
    /\ tasks = <<>>
    /\ fnIn = NoInput
    /\ fnOut = NoResult
    /\ isMobile = TRUE
    /\ SavedAtMount

NextMutate ==
    \/ \E b \in BOOLEAN : user = None /\ SetGuestMode(b)
    \/ \E draft \in Drafts : AddTask(draft)
    \/ \E o \in CreateOutcomes : CreateTaskReturn(o)
    \/ \E i \in 1..Len(tasks), p \in ProgressInputs :
           UpdateTaskProgress(tasks[i].id, p)
    \/ \E o \in {"ok", "error", "linkError"} : UpdateTaskReturn(o)
    \/ \E i \in 1..Len(tasks) : DeleteTask(tasks[i].id)
    \/ \E o \in DeleteOutcomes : DeleteTaskReturn(o)
    \/ \E n \in NewTagNames : AddTag(n)
    \/ \E o \in {"ok", "error"} : CreateTagReturn(o)
    \/ RefetchTasks
    \/ \E o \in {"ok", "error"} : RefetchTasksReturn(o)

SpecMutate == InitMutate /\ [][NextMutate]_vars

(***************************************************************************)
(* Claims about the mutations and the refetch, under SpecMutate.           *)
(***************************************************************************)
MutationOps == {"create", "update", "delete", "createTag"}

\* C11: signed in, a mutation touches the in-memory collections neither
\* when it sends its remote call nor when that call comes back failed.
C11_FailureLeavesCollections ==
    [][ ( \/ call.op = "none" /\ call'.op \in MutationOps
          \/ /\ call.op \in MutationOps
             /\ call'.op = "none"
             /\ settled'.remote = "error" )
        => (tasks' = tasks /\ tags' = tags) ]_vars

C11_Witness ==
    /\ ~isGuest
    /\ settled.op = "createTag"
    /\ settled.remote = "error"
    /\ Len(tasks) > 0

\* C12: a mutation whose remote call failed ends as a rejected promise.
C12_FailureReported ==
    settled.remote = "error" => settled.how = "rejected"

\* C17: after a successful signed-in addTask or updateTask, the task held
\* and its remote row both carry the reference score of the task.
C17_ScoreAttached ==
    (settled.op \in {"create", "update"} /\ settled.remote = "ok") =>
        /\ HasId(tasks, settled.id)
        /\ HasRow(remoteTasks, settled.id, user)
        /\ LET t == Find(tasks, settled.id) IN
            /\ t.aiScore = ScoreOf(t)
            /\ RowAt(remoteTasks, settled.id, user).ai_score = ScoreOf(t)

\* C18: a load of the collections made right after another load gives the
\* same task and tag collections as that one.
C18_RefetchIdempotent ==
    lastLoad.n = 2 => lastLoad.cur = lastLoad.prev

\* C35: in guest mode the tasks and tags kept in localStorage are the
\* in-memory task and tag collections (no stored tasks counts as none).
C35_StoredEqualsMemory ==
    isGuest =>
        /\ tasks = (IF localTasks.present THEN localTasks.value ELSE <<>>)
        /\ localTags = Stored(tags)

(***************************************************************************)
(* taskService, one store call at a time.  Two callers run adapter calls   *)
(* for u1 concurrently; a task now has tags, kept in the relation          *)
(* task_tags.  The store answers each call with ok or with an error.  The  *)
(* relation task_tags refers to tasks: a task row that still has link rows *)
(* cannot be deleted, and a link row needs its task row.                   *)
(***************************************************************************)
MaxCalls == 3       \* adapter calls made in one behaviour of SpecAdapter
Callers == {"c1", "c2"}

TagId(name) == <<"tag", name, 1>>
TagChoices == {{TagId("Work")}, {TagId("Personal")}}

\* The store calls of each operation, in program order.
StepsRowFirst(op, withTags) ==
    IF op = "deleteTask" THEN <<"tasks.delete", "task_tags.delete">>
    ELSE IF op = "fetchTasks" THEN <<"tasks.select", "tags.select">>
    ELSE IF op = "fetchTags" THEN <<"tags.select">>
    ELSE IF op = "createTag" THEN <<"tags.insert">>
    ELSE IF op = "createTask"
        THEN IF withTags THEN <<"tasks.insert", "task_tags.insert">>
             ELSE <<"tasks.insert">>
    ELSE IF withTags
        THEN <<"tasks.update", "task_tags.delete", "task_tags.insert">>
    ELSE <<"tasks.update", "task_tags.delete">>

Steps(op, withTags) ==
    IF op = "createTask"
        THEN IF withTags THEN <<"tasks.insert", "task_tags.insert">>
             ELSE <<"tasks.insert">>
    ELSE IF op = "updateTask"
        THEN IF withTags
             THEN <<"tasks.update", "task_tags.delete", "task_tags.insert">>
             ELSE <<"tasks.update", "task_tags.delete">>
    ELSE IF op = "deleteTask" THEN <<"task_tags.delete", "tasks.delete">>
    ELSE IF op = "fetchTasks" THEN <<"tasks.select", "tags.select">>
    ELSE IF op = "fetchTags" THEN <<"tags.select">>
    ELSE <<"tags.insert">>

NoErr == [at |-> "none", by |-> "none"]
StoreErr(c, at) == [at |-> at, by |-> c]

\* An adapter call that has just been made.
NewCall(op, arg) ==
    [op |-> op, arg |-> arg, status |-> "running", issued |-> <<>>,
     got |-> <<>>, err |-> NoErr, thrown |-> NoErr, ret |-> <<>>]

StepsOf(k) == Steps(k.op, k.op \in {"createTask", "updateTask"} /\ k.arg.tags # {})
NextStep(k) == StepsOf(k)[Len(k.issued) + 1]

\* if (error) throw error: an error ends the call; otherwise the call goes
\* on to its next store call, or returns.
NextStatusKeepGoing(k, outcome) ==
    IF Len(k.issued) + 1 < Len(StepsOf(k)) THEN "running"
    ELSE IF outcome = "ok" THEN "returned" ELSE "thrown"

NextStatus(k, outcome) ==
    IF outcome # "ok" THEN "thrown"
    ELSE IF Len(k.issued) + 1 = Len(StepsOf(k)) THEN "returned"
    ELSE "running"

\* The call record after its next store call was answered with outcome.
Answered(c, k, outcome, got, ret) ==
    [k EXCEPT !.issued = Append(@, NextStep(k)),
              !.status = NextStatus(k, outcome),
              !.err = IF outcome = "ok" THEN @ ELSE StoreErr(c, NextStep(k)),
              !.thrown = IF NextStatus(k, outcome) = "thrown"
                         THEN StoreErr(c, NextStep(k)) ELSE @,
              !.got = IF outcome = "ok" THEN got ELSE @,
              !.ret = IF NextStatus(k, outcome) = "returned" THEN ret ELSE @]

\* The relation task_tags.
LinkRows(id, tagIds) == SetToBag({[task_id |-> id, tag_id |-> t] : t \in tagIds})
LinksOf(lk, id) == {l \in BagToSet(lk) : l.task_id = id}
TagIdsOf(lk, id) == {l.tag_id : l \in LinksOf(lk, id)}
WithoutLinksOf(lk, id) ==
    lk (-) [l \in LinksOf(lk, id) |-> CopiesIn(l, lk)]

LinkInsertOutcomes(rows, id) ==
    IF \E r \in rows : r.id = id THEN {"ok", "error"} ELSE {"error"}
RowDeleteOutcomes(lk, id) ==
    IF LinksOf(lk, id) = {} THEN {"ok", "error"} ELSE {"error"}

\* select * from tags where user_id = uid, in the store's order.
NameOrder == <<"Work", "Personal", "Urgent", "Shopping", "Health", "Home">>
NamePos(n) == CHOOSE i \in 1..Len(NameOrder) : NameOrder[i] = n
TagData(rows, uid) ==
    LET rs == TagRowsOf(rows, uid)
        before(x, r) == \/ NamePos(x.name) < NamePos(r.name)
                        \/ x.name = r.name /\ x.id[3] < r.id[3]
        rank(r) == Cardinality({x \in rs : before(x, r)}) + 1
    IN  [i \in 1..Cardinality(rs) |-> CHOOSE r \in rs : rank(r) = i]

\* fetchTasks: the tags of one task.  tagIds are the tag_id of its link
\* rows; taskTags = tagsData.filter(tag => tagIds.includes(tag.id)).
RECURSIVE TaskTagsPerLink(_, _, _)
TaskTagsPerLink(tagsData, lk, id) ==
    IF tagsData = <<>> THEN <<>>
    ELSE [i \in 1..CopiesIn([task_id |-> id, tag_id |-> Head(tagsData).id], lk)
              |-> Head(tagsData).id]
         \o TaskTagsPerLink(Tail(tagsData), lk, id)

TaskTags(tagsData, lk, id) ==
    LET kept == SelectSeq(tagsData, LAMBDA tag : tag.id \in TagIdsOf(lk, id))
    IN  [i \in 1..Len(kept) |-> kept[i].id]

TasksWithTags(got, tagsData) ==
    [i \in 1..Len(got.tasks) |->
        [id |-> got.tasks[i].id,
         tags |-> TaskTags(tagsData, got.links, got.tasks[i].id)]]

Running(c) == c \in DOMAIN acalls /\ acalls[c].status = "running"
Others == <<authVars, tasks, tags, localVars, nextUuid, syncVars, call,
            queueVars, toggleRun, histVars, fnVars>>

\* A caller that has no call under way makes one.
StartCall(c, op, arg) ==
    /\ ~Running(c)
    /\ ncalls < MaxCalls
    /\ ncalls' = ncalls + 1
    /\ acalls' = [x \in DOMAIN acalls \cup {c} |->
                     IF x = c THEN NewCall(op, arg) ELSE acalls[x]]
    /\ UNCHANGED <<remoteTasks, remoteTags, links, nextId, Others>>

\* createTask: insert into tasks, then the link rows when there are tags.
CreateTaskStep(c, outcome) ==
    /\ Running(c)
    /\ acalls[c].op = "createTask"
    /\ LET k == acalls[c] IN
       IF NextStep(k) = "tasks.insert"
       THEN /\ outcome \in (IF nextId <= MaxRemote THEN CreateOutcomes
                            ELSE {"error"})
            /\ remoteTasks' = IF outcome = "ok"
                              THEN RemoteCreate(remoteTasks, k.arg.draft, "u1",
                                                ServerId(nextId))
                              ELSE remoteTasks
            /\ nextId' = IF outcome = "ok" THEN nextId + 1 ELSE nextId
            /\ links' = links
            /\ acalls' = [acalls EXCEPT ![c] =
                   Answered(c, k, outcome, ServerId(nextId), ServerId(nextId))]
       ELSE /\ outcome \in LinkInsertOutcomes(remoteTasks, k.got)
            /\ links' = IF outcome = "ok"
                        THEN links (+) LinkRows(k.got, k.arg.tags) ELSE links
            /\ acalls' = [acalls EXCEPT ![c] =
                   Answered(c, k, outcome, k.got, k.got)]
            /\ UNCHANGED <<remoteTasks, nextId>>
    /\ UNCHANGED <<ncalls, remoteTags, Others>>

\* updateTask: update the row, delete the task's links, insert the new ones.
UpdateTaskStep(c, outcome) ==
    /\ Running(c)
    /\ acalls[c].op = "updateTask"
    /\ LET k == acalls[c]
           id == k.arg.task.id
       IN
       /\ IF NextStep(k) = "tasks.update"
          THEN /\ outcome \in (IF HasRow(remoteTasks, id, "u1")
                               THEN {"ok", "error"} ELSE {"error"})
               /\ remoteTasks' = IF outcome = "ok"
                                 THEN RemoteUpdate(remoteTasks, k.arg.task, "u1")
                                 ELSE remoteTasks
               /\ links' = links
          ELSE IF NextStep(k) = "task_tags.delete"
          THEN /\ outcome \in {"ok", "error"}
               /\ links' = IF outcome = "ok" THEN WithoutLinksOf(links, id)
                           ELSE links
               /\ remoteTasks' = remoteTasks
          ELSE /\ outcome \in LinkInsertOutcomes(remoteTasks, id)
               /\ links' = IF outcome = "ok"
                           THEN links (+) LinkRows(id, k.arg.tags) ELSE links
               /\ remoteTasks' = remoteTasks
       /\ acalls' = [acalls EXCEPT ![c] = Answered(c, k, outcome, id, id)]
    /\ UNCHANGED <<ncalls, remoteTags, nextId, Others>>

\* deleteTask: delete the task's links, then the row.
DeleteTaskStep(c, outcome) ==
    /\ Running(c)
    /\ acalls[c].op = "deleteTask"
    /\ LET k == acalls[c]
           id == k.arg.id
       IN
       /\ IF NextStep(k) = "task_tags.delete"
          THEN /\ outcome \in {"ok", "error"}
               /\ links' = IF outcome = "ok" THEN WithoutLinksOf(links, id)
                           ELSE links
               /\ remoteTasks' = remoteTasks
          ELSE /\ outcome \in RowDeleteOutcomes(links, id)
               /\ remoteTasks' = IF outcome = "ok"
                                 THEN RemoteDelete(remoteTasks, id, "u1")
                                 ELSE remoteTasks
               /\ links' = links
       /\ acalls' = [acalls EXCEPT ![c] = Answered(c, k, outcome, id, id)]
    /\ UNCHANGED <<ncalls, remoteTags, nextId, Others>>

\* fetchTasks: the rows with their embedded link rows, then all the tags.
FetchTasksStep(c, outcome) ==
    /\ Running(c)
    /\ acalls[c].op = "fetchTasks"
    /\ outcome \in {"ok", "error"}
    /\ LET k == acalls[c] IN
       acalls' = [acalls EXCEPT ![c] =
           IF NextStep(k) = "tasks.select"
           THEN Answered(c, k, outcome,
                         [tasks |-> FetchedTasks(remoteTasks, "u1"),
                          links |-> links], <<>>)
           ELSE Answered(c, k, outcome, k.got,
                         TasksWithTags(k.got, TagData(remoteTags, "u1")))]
    /\ UNCHANGED <<remoteTasks, remoteTags, links, nextId, ncalls, Others>>

FetchTagsStep(c, outcome) ==
    /\ Running(c)
    /\ acalls[c].op = "fetchTags"
    /\ outcome \in {"ok", "error"}
    /\ acalls' = [acalls EXCEPT ![c] =
           Answered(c, acalls[c], outcome, <<>>, TagData(remoteTags, "u1"))]
    /\ UNCHANGED <<remoteTasks, remoteTags, links, nextId, ncalls, Others>>

CreateTagStep(c, outcome) ==
    /\ Running(c)
    /\ acalls[c].op = "createTag"
    /\ outcome \in {"ok", "error"}
    /\ LET k == acalls[c]
           row == CHOOSE r \in SeededRows(remoteTags, "u1", {k.arg.name}) : TRUE
       IN  /\ remoteTags' = IF outcome = "ok" THEN remoteTags \cup {row}
                            ELSE remoteTags
           /\ acalls' = [acalls EXCEPT ![c] =
                             Answered(c, k, outcome, <<>>, RowToTag(row))]
    /\ UNCHANGED <<ncalls, remoteTasks, links, nextId, Others>>

\* u1 is signed in; the store holds its default tags and one task.
InitAdapter ==
    /\ user = "u1"
    /\ isGuest = FALSE
    /\ UserSession("u1")
    /\ OneRemoteTask("u1")
    /\ InitCommon
    /\ tasks = <<>>
    /\ fnIn = NoInput
    /\ fnOut = NoResult
    /\ isMobile = TRUE
    /\ SavedAtMount

TaskOf(row, title, tagIds) ==
    [id |-> row.id, title |-> title, status |-> row.status,
     progress |-> row.progress, completedAt |-> row.completed_at,
     tags |-> tagIds]

\* createTask(task, userId): with one tag, or with none.
CreateArgs ==
    {[draft |-> FormDraft("a", 0), tags |-> T] : T \in TagChoices \cup {{}}}

NextAdapter ==
    \/ \E c \in Callers, arg \in CreateArgs : StartCall(c, "createTask", arg)
    \/ \E c \in Callers, r \in remoteTasks, T \in TagChoices :
           StartCall(c, "updateTask", [task |-> TaskOf(r, "b", T), tags |-> T])
    \/ \E c \in Callers, r \in remoteTasks :
           StartCall(c, "updateTask", [task |-> TaskOf(r, "b", {}), tags |-> {}])
    \/ \E c \in Callers, r \in remoteTasks :
           StartCall(c, "deleteTask", [id |-> r.id])
    \/ \E c \in Callers : StartCall(c, "fetchTasks", [uid |-> "u1"])
    \/ \E c \in Callers : StartCall(c, "fetchTags", [uid |-> "u1"])
    \/ \E c \in Callers :
           /\ Cardinality(AddedTags(remoteTags)) < MaxTags
           /\ StartCall(c, "createTag", [name |-> "Home"])
    \/ \E c \in Callers, o \in {"ok", "error"} : CreateTaskStep(c, o)
    \/ \E c \in Callers, o \in {"ok", "error"} : UpdateTaskStep(c, o)
    \/ \E c \in Callers, o \in {"ok", "error"} : DeleteTaskStep(c, o)
    \/ \E c \in Callers, o \in {"ok", "error"} : FetchTasksStep(c, o)
    \/ \E c \in Callers, o \in {"ok", "error"} : FetchTagsStep(c, o)
    \/ \E c \in Callers, o \in {"ok", "error"} : CreateTagStep(c, o)

SpecAdapter == InitAdapter /\ [][NextAdapter]_vars

(***************************************************************************)
(* Claims about the adapter, under SpecAdapter.                            *)
(***************************************************************************)
CallsOf(op) == {c \in DOMAIN acalls : acalls[c].op = op}
CallsEnded(op, status) == {c \in CallsOf(op) : acalls[c].status = status}
NoRepeat(q) == \A i, j \in 1..Len(q) : q[i] = q[j] => i = j

\* C13: when two updateTask calls for the same task have both returned,
\* the task's links are the tag set of one of the two calls.
C13_LastWriterWins ==
    \A c, d \in CallsEnded("updateTask", "returned") :
        (c # d /\ acalls[c].arg.task.id = acalls[d].arg.task.id) =>
            TagIdsOf(links, acalls[c].arg.task.id)
                \in {acalls[c].arg.tags, acalls[d].arg.tags}

\* C14: when createTask has thrown, the store holds no task row that the
\* call inserted.
C14_CreateAtomic ==
    \A c \in CallsEnded("createTask", "thrown") :
        \A r \in remoteTasks : r.id # acalls[c].got

\* C15: deleteTask sends the row delete only after its link delete went
\* through; a failed link delete ends the call with that error and the row
\* delete is never sent; and no step removes a task row that has links.
C15_LinksFirst ==
    /\ [](\A c \in CallsOf("deleteTask") :
            LET k == acalls[c] IN
            /\ (\E i \in 1..Len(k.issued) : k.issued[i] = "tasks.delete") =>
                   /\ k.issued = <<"task_tags.delete", "tasks.delete">>
                   /\ k.err.at # "task_tags.delete"
            /\ k.err.at = "task_tags.delete" =>
                   /\ k.status = "thrown"
                   /\ k.thrown = k.err
                   /\ k.issued = <<"task_tags.delete">>)
    /\ [][\A r \in remoteTasks :
              (\A q \in remoteTasks' : q.id # r.id) =>
                  LinksOf(links, r.id) = {}]_vars

C15_Witness ==
    \E c \in CallsEnded("deleteTask", "returned"), d \in CallsEnded("updateTask", "returned") :
        /\ acalls[d].arg.task.id = acalls[c].arg.id
        /\ acalls[d].arg.tags # {}
        /\ \A r \in remoteTasks : r.id # acalls[c].arg.id

\* C16: a call that got an error from the store has thrown that error, the
\* failing store call is the last one it sent, and no call sends a store
\* call twice or out of its program order.
C16_ErrorsSurface ==
    \A c \in DOMAIN acalls :
        LET k == acalls[c] IN
        /\ NoRepeat(k.issued)
        /\ k.issued = SubSeq(StepsOf(k), 1, Len(k.issued))
        /\ k.err # NoErr =>
               /\ k.status = "thrown"
               /\ k.thrown = k.err
               /\ k.issued[Len(k.issued)] = k.err.at

C16_Witness ==
    \E c \in CallsEnded("updateTask", "thrown"), d \in CallsEnded("fetchTasks", "thrown") :
        /\ acalls[c].err.at = "task_tags.delete"
        /\ acalls[d].err.at = "tags.select"

\* C20: no task returned by fetchTasks has the same tag id twice.
C20_NoDuplicateTags ==
    \A c \in CallsEnded("fetchTasks", "returned") :
        \A i \in 1..Len(acalls[c].ret) : NoRepeat(acalls[c].ret[i].tags)

C20_Witness ==
    \E c \in CallsEnded("fetchTasks", "returned") :
        \E i \in 1..Len(acalls[c].ret) :
            /\ Len(acalls[c].ret[i].tags) = 1
            /\ \E l \in LinksOf(acalls[c].got.links, acalls[c].ret[i].id) :
                   CopiesIn(l, acalls[c].got.links) = 2

(***************************************************************************)
(* The functions of the program, each applied to an argument drawn from a  *)
(* bounded set.  Time is counted in half days from today's midnight; a     *)
(* name is the sequence of its characters.                                 *)
(***************************************************************************)
MaxHalfDays == 17

toLowerCase(s) ==
    LET upper == <<"A", "B", "C", "D", "E", "F", "G", "H", "I", "J", "K", "L",
                   "M", "N", "O", "P", "Q", "R", "S", "T", "U", "V", "W", "X",
                   "Y", "Z">>
        lower == <<"a", "b", "c", "d", "e", "f", "g", "h", "i", "j", "k", "l",
                   "m", "n", "o", "p", "q", "r", "s", "t", "u", "v", "w", "x",
                   "y", "z">>
    IN  [i \in 1..Len(s) |->
            IF \E k \in 1..26 : upper[k] = s[i]
            THEN lower[CHOOSE k \in 1..26 : upper[k] = s[i]]
            ELSE s[i]]

urgent == <<"u", "r", "g", "e", "n", "t">>

\* Math.ceil and Math.round of a number of half days, in days.
CeilDays(h) == -((-h) \div 2)
RoundDays(h) == (h + 1) \div 2

\* daysUntilDue, or NoDue when if (task.dueDate) fails.
DaysUntilDue(task, now) ==
    IF task.dueDate = NoDue THEN NoDue
    ELSE Max(0, CeilDays(task.dueDate - now))

\* calculateAiScore(task) of taskService at the time now.
AiScoreOf(task, now) ==
    calculateAiScore(task.priority,
                     DaysUntilDue(task, now),
                     \E g \in task.tags : g.id = "urgent",
                     task.progress)

\* What calculateAiScore(task) adds to score, term by term.
ScoreTerms(task, now) ==
    [priority |-> PriorityTerm(task.priority),
     dueDate |-> DueDateTerm(DaysUntilDue(task, now)),
     tags |-> TagTerm(\E g \in task.tags : g.id = "urgent"),
     progress |-> ProgressTerm(task.progress)]

\* calculateAiScoreForGuest(task) of TaskProvider at the time now.
GuestAiScoreOf(task, now) ==
    calculateAiScoreForGuest(task.priority,
                             IF task.dueDate = NoDue THEN NoDue
                             ELSE RoundDays(task.dueDate - now),
                             \E g \in task.tags : toLowerCase(g.name) = urgent)

\* The arguments: the four priorities of TaskPriority and one of the legacy
\* open strings; no due date or a due date around today; tags of
\* DEFAULT_TAGS (id "urgent"), of the store (generated ids) and of the user.
ScoreTagSets ==
    LET Urgent == <<"U", "r", "g", "e", "n", "t">>
        urgentDefault == [id |-> "urgent", name |-> Urgent]
        urgentRow == [id |-> "t1", name |-> Urgent]
        veryUrgent == [id |-> "t2", name |-> <<"V", "e", "r", "y", " ">> \o urgent]
        work == [id |-> "t3", name |-> <<"W", "o", "r", "k">>]
    IN  {{}, {urgentDefault}, {urgentRow}, {veryUrgent}, {work},
         {work, veryUrgent}, {work, urgentDefault}}

ScoreInputs ==
    [fn : {"calculateAiScore", "calculateAiScoreForGuest"},
     task : [priority : {"low", "medium", "high", "urgent", "someday"},
             dueDate : {NoDue} \cup (-2..MaxHalfDays),
             tags : ScoreTagSets,
             progress : {0, 50, 75, 80, 100}],
     now : {0, 1}]

FnOthers == <<authVars, tasks, tags, localVars, remoteTasks, remoteTags,
             nextId, nextUuid, syncVars, call, queueVars, toggleRun,
             adapterVars, histVars, isMobile, fnIn>>

Score ==
    /\ fnIn.fn = "calculateAiScore"
    /\ fnOut = NoResult
    /\ fnOut' = [fn |-> fnIn.fn, value |-> AiScoreOf(fnIn.task, fnIn.now),
                 terms |-> ScoreTerms(fnIn.task, fnIn.now)]
    /\ UNCHANGED FnOthers

ScoreForGuest ==
    /\ fnIn.fn = "calculateAiScoreForGuest"
    /\ fnOut = NoResult
    /\ fnOut' = [fn |-> fnIn.fn, value |-> GuestAiScoreOf(fnIn.task, fnIn.now)]
    /\ UNCHANGED FnOthers

\* getAiPrioritizedTasks: [...tasks].sort((a, b) => (b.aiScore || 0) -
\* (a.aiScore || 0)).  Array.prototype.sort is stable: an element goes
\* behind every element the comparator does not put after it.
MaxSorted == 3

AiScoreOrZero(t) == IF t.aiScore = NoScore THEN 0 ELSE t.aiScore

CompareAscending(a, b) == AiScoreOrZero(a) - AiScoreOrZero(b)

Compare(a, b) == AiScoreOrZero(b) - AiScoreOrZero(a)

RECURSIVE Sort(_)
Sort(arr) ==
    IF arr = <<>> THEN <<>>
    ELSE LET init == Sort(SubSeq(arr, 1, Len(arr) - 1))
             x == arr[Len(arr)]
             k == Cardinality({i \in 1..Len(init) : Compare(init[i], x) <= 0})
         IN  SubSeq(init, 1, k) \o <<x>> \o SubSeq(init, k + 1, Len(init))

\* The collections getAiPrioritizedTasks is called on: tasks with distinct
\* ids, scored or not.
ScoredLists ==
    LET ids == 1..MaxSorted
        scored == [id : ids, aiScore : {NoScore, 0, 10, 20}]
    IN  {l \in UNION {[1..n -> scored] : n \in 0..MaxSorted} :
            \A i, j \in 1..Len(l) : i # j => l[i].id # l[j].id}

GetAiPrioritizedTasks ==
    /\ fnIn.fn = "getAiPrioritizedTasks"
    /\ fnOut = NoResult
    /\ fnOut' = [fn |-> fnIn.fn, value |-> Sort(tasks)]
    /\ UNCHANGED FnOthers

\* A Task written to localStorage and read back.  A value of a field is
\* a Date, the ISO string of one, null or undefined; at is the instant.
JsValue(type, at) == [type |-> type, at |-> at]

\* JSON.parse(JSON.stringify(task)): a Date is written as its ISO string
\* and comes back as that string; null stays null and an undefined
\* property is left out.
ParsedBack(task) ==
    [f \in DOMAIN task |->
        IF task[f].type = "Date" THEN JsValue("string", task[f].at)
        ELSE task[f]]

\* new Date(v) and the truthiness of v.
newDate(v) ==
    IF v.type \in {"Date", "string"} THEN JsValue("Date", v.at)
    ELSE IF v.type = "null" THEN JsValue("Date", 0)
    ELSE JsValue("Invalid Date", 0)

Truthy(v) == v.type \notin {"null", "undefined"}

\* loadLocalData: setTasks(JSON.parse(storedTasks)).
ReadGuestTask ==
    /\ fnIn.fn = "loadLocalData"
    /\ fnOut = NoResult
    /\ fnOut' = [fn |-> fnIn.fn, value |-> ParsedBack(fnIn.task)]
    /\ UNCHANGED FnOthers

\* useOfflineStorage: setQueue(JSON.parse(storedQueue)) and
\* setOfflineData(JSON.parse(storedData)); the task is the payload of an
\* entry and an item of the snapshot.
ReadOfflineTask ==
    /\ fnIn.fn = "useOfflineStorage"
    /\ fnOut = NoResult
    /\ fnOut' = [fn |-> fnIn.fn, value |-> ParsedBack(fnIn.task)]
    /\ UNCHANGED FnOthers

\* The legacy provider's load: the four fields go through new Date.
ReadLegacyTask ==
    /\ fnIn.fn = "legacyLoad"
    /\ fnOut = NoResult
    /\ LET task == ParsedBack(fnIn.task) IN
        fnOut' = [fn |-> fnIn.fn,
                  value |-> [dueDate |-> IF Truthy(task.dueDate)
                                         THEN newDate(task.dueDate)
                                         ELSE JsValue("null", 0),
                             createdAt |-> newDate(task.createdAt),
                             updatedAt |-> newDate(task.updatedAt),
                             completedAt |-> IF Truthy(task.completedAt)
                                             THEN newDate(task.completedAt)
                                             ELSE JsValue("undefined", 0)]]
    /\ UNCHANGED FnOthers

\* The tasks written: created at 1, updated at 1 or 2, due or not,
\* completed or not.
StoredInputs ==
    [fn : {"loadLocalData", "useOfflineStorage", "legacyLoad"},
     task : [dueDate : {JsValue("null", 0), JsValue("Date", 3)},
             createdAt : {JsValue("Date", 1)},
             updatedAt : {JsValue("Date", 1), JsValue("Date", 2)},
             completedAt : {JsValue("undefined", 0), JsValue("Date", 2)}]]

InitFn ==
    /\ user = None
    /\ isGuest = FALSE
    /\ tags = {}
    /\ localTags = Absent
    /\ NoRemoteTasks
    /\ remoteTags = {}
    /\ InitCommon
    /\ isMobile = TRUE
    /\ SavedAtMount
    /\ \/ fnIn \in ScoreInputs \cup StoredInputs /\ tasks = <<>>
       \/ fnIn = [fn |-> "getAiPrioritizedTasks"] /\ tasks \in ScoredLists
    /\ fnOut = NoResult

NextFn ==
    \/ Score
    \/ ScoreForGuest
    \/ GetAiPrioritizedTasks
    \/ ReadGuestTask
    \/ ReadOfflineTask
    \/ ReadLegacyTask

SpecFn == InitFn /\ [][NextFn]_vars

(***************************************************************************)
(* Claims about the functions, under SpecFn.                               *)
(***************************************************************************)
Scored == fnOut.fn = "calculateAiScore"
GuestScored == fnOut.fn = "calculateAiScoreForGuest"

\* C21: whatever the priority, the due date, the tags and the progress of
\* the task, the score calculateAiScore gives is an integer from 0 to 100.
C21_ScoreBounds == Scored => fnOut.value \in 0..100

C21_Witness ==
    /\ Scored
    /\ fnOut.value = 100
    /\ fnIn.task.priority = "urgent"

\* C22: the priority term of calculateAiScore is 30 for urgent, 20 for high,
\* 10 for medium, 5 for low and 5 for every other priority value.
C22_PriorityTerm ==
    Scored =>
        fnOut.terms.priority =
            ( IF fnIn.task.priority = "urgent" THEN 30
              ELSE IF fnIn.task.priority = "high" THEN 20
              ELSE IF fnIn.task.priority = "medium" THEN 10
              ELSE 5 )

\* C23: with everything else of the task fixed, a due date with fewer
\* daysUntilDue never has a smaller due-date term, and a priority higher in
\* low < medium < high < urgent never has a smaller priority term.
C23_Monotone ==
    LET rank == [p \in {"low", "medium", "high", "urgent"} |->
                    IF p = "low" THEN 1 ELSE IF p = "medium" THEN 2
                    ELSE IF p = "high" THEN 3 ELSE 4]
        t == fnIn.task
    IN  Scored =>
          /\ t.dueDate # NoDue =>
                \A d \in -2..MaxHalfDays :
                    LET other == [t EXCEPT !.dueDate = d] IN
                    DaysUntilDue(other, fnIn.now) <= DaysUntilDue(t, fnIn.now)
                        => ScoreTerms(other, fnIn.now).dueDate
                               >= fnOut.terms.dueDate
          /\ t.priority \in DOMAIN rank =>
                \A p \in DOMAIN rank :
                    rank[p] >= rank[t.priority]
                        => ScoreTerms([t EXCEPT !.priority = p],
                                      fnIn.now).priority
                               >= fnOut.terms.priority

C23_Witness ==
    /\ Scored
    /\ fnIn.task.priority = "high"
    /\ fnIn.task.dueDate = 8
    /\ fnOut.terms.priority = 20
    /\ fnOut.terms.dueDate = 20

\* C24: a task of priority urgent, due tomorrow (the day the date picker
\* gives: tomorrow's midnight) and carrying the tag whose id is "urgent"
\* scores 95 at progress 0 and 100 at progress 80.
C24_Scenarios ==
    ( /\ Scored
      /\ fnIn.task.priority = "urgent"
      /\ fnIn.task.dueDate = 2
      /\ \E g \in fnIn.task.tags : g.id = "urgent" )
    => /\ fnIn.task.progress = 0 => fnOut.value = 95
       /\ fnIn.task.progress = 80 => fnOut.value = 100

C24_Witness ==
    /\ Scored
    /\ fnIn.task.priority = "urgent"
    /\ fnIn.task.dueDate = 2
    /\ fnIn.now = 1
    /\ \E g \in fnIn.task.tags : g.id = "urgent"
    /\ fnIn.task.progress = 0
    /\ fnOut.value = 95

\* C25: calculateAiScoreForGuest gives 10 for a task of priority low with no
\* due date and no tags.
C25_GuestScenario ==
    ( /\ GuestScored
      /\ fnIn.task.priority = "low"
      /\ fnIn.task.dueDate = NoDue
      /\ fnIn.task.tags = {} )
    => fnOut.value = 10

C25_Witness ==
    /\ GuestScored
    /\ fnIn.task.priority = "low"
    /\ fnIn.task.dueDate = NoDue
    /\ fnIn.task.tags = {}
    /\ fnIn.task.progress = 50
    /\ fnOut.value = 10

\* part occurs in s as a substring.
Contains(s, part) ==
    \E i \in 0..(Len(s) - Len(part)) : SubSeq(s, i + 1, i + Len(part)) = part

\* C26: calculateAiScoreForGuest adds 25 for the tags exactly when the name
\* of one of them, in lower case, contains "urgent", and nothing otherwise.
C26_GuestTagTerm ==
    LET untagged == [fnIn.task EXCEPT !.tags = {}] IN
    GuestScored =>
        fnOut.value - GuestAiScoreOf(untagged, fnIn.now) =
            ( IF \E g \in fnIn.task.tags : Contains(toLowerCase(g.name), urgent)
              THEN 25 ELSE 0 )

\* C27: getAiPrioritizedTasks returns all the tasks of the collection, by
\* aiScore descending (no score counts as 0), tasks of equal score in the
\* order they have in the collection, and the collection stays as it was.
Prioritized == fnOut.fn = "getAiPrioritizedTasks"

PosIn(arr, t) == CHOOSE i \in 1..Len(arr) : arr[i] = t

C27_Prioritized ==
    /\ [](Prioritized =>
            LET r == fnOut.value IN
            /\ Len(r) = Len(tasks)
            /\ {r[i] : i \in 1..Len(r)} = {tasks[i] : i \in 1..Len(tasks)}
            /\ \A i, j \in 1..Len(r) :
                   i < j =>
                     /\ AiScoreOrZero(r[i]) >= AiScoreOrZero(r[j])
                     /\ AiScoreOrZero(r[i]) = AiScoreOrZero(r[j])
                            => PosIn(tasks, r[i]) < PosIn(tasks, r[j]))
    /\ [][Prioritized' => tasks' = tasks]_vars

C27_Witness ==
    /\ Prioritized
    /\ Len(tasks) = 3
    /\ AiScoreOrZero(tasks[1]) < AiScoreOrZero(tasks[2])
    /\ tasks[1].aiScore = NoScore
    /\ tasks[3].aiScore = 0
    /\ fnOut.value = <<tasks[2], tasks[1], tasks[3]>>

\* C30: a task written to localStorage and read back has, in dueDate,
\* createdAt, updatedAt and completedAt, the Date that was written, in the
\* guest collection, in the offline snapshot and queue, and in the legacy
\* collection.
ReadBack == fnOut.fn \in {"loadLocalData", "useOfflineStorage", "legacyLoad"}

C30_TimestampsRoundTrip ==
    ReadBack =>
        \A f \in DOMAIN fnIn.task :
            fnIn.task[f].type = "Date" => fnOut.value[f] = fnIn.task[f]

\* C38: under calculateAiScoreForGuest, with everything else of the task
\* fixed, a priority higher in low < medium < high < urgent never has a
\* smaller priority term and a due date fewer days away never has a smaller
\* due-date term.  The score is the plain sum of the terms, so with the
\* rest fixed the scores differ by what the one term differs.
C38_GuestMonotone ==
    LET rank == [p \in {"low", "medium", "high", "urgent"} |->
                    IF p = "low" THEN 1 ELSE IF p = "medium" THEN 2
                    ELSE IF p = "high" THEN 3 ELSE 4]
        t == fnIn.task
    IN  GuestScored =>
          /\ t.dueDate # NoDue =>
                \A d \in -2..MaxHalfDays :
                    RoundDays(d - fnIn.now) <= RoundDays(t.dueDate - fnIn.now)
                        => GuestAiScoreOf([t EXCEPT !.dueDate = d], fnIn.now)
                               >= fnOut.value
          /\ t.priority \in DOMAIN rank =>
                \A p \in DOMAIN rank :
                    rank[p] >= rank[t.priority]
                        => GuestAiScoreOf([t EXCEPT !.priority = p], fnIn.now)
                               >= fnOut.value

====
